---- MODULE Spec2Model ----
(***************************************************************************)
(* Dependency store, graph derivation, reachability and descendant         *)
(* traversal of lib/icinga/checkable-dependency.cpp.                       *)
(*                                                                         *)
(* Checkables and Dependency objects are identified by small integers that *)
(* stand for their addresses: std::set<Ptr> iterates in ascending pointer  *)
(* order, so loops over such sets run in ascending identifier order.       *)
(***************************************************************************)
EXTENDS Integers, Sequences, FiniteSets, TLC

(* static constexpr int l_MaxDependencyRecursionLevel(256) *)
l_MaxDependencyRecursionLevel == 256

(* Bounds of the model. *)
NumCheckables == 3
NumDeps == 3

DepIds == 1 .. NumDeps

(* The null Dependency::Ptr / Checkable::Ptr, and a null failedDependency   *)
(* pointer argument (the caller passed no output slot).                    *)
nullptr == 0
NoSlot == -1

(* A checkable that is a Host: dynamic_cast<const Service *>(this) is null. *)
NotAService == -2

DependencyTypes == {"DependencyState", "DependencyCheckExecution", "DependencyNotification"}
RedundancyGroups == {"g1", "g2"}

VARIABLES
    m_Dependencies,         \* [checkable -> set of Dependency ids]
    m_ReverseDependencies,  \* [checkable -> set of Dependency ids]
    m_Parent,               \* Dependency -> parent checkable (or nullptr)
    m_Child,                \* Dependency -> child checkable (or nullptr)
    m_RedundancyGroup,      \* Dependency -> redundancy group key ("" if none)
    available,              \* Dependency -> dependency types it is available for
    m_Host,                 \* checkable -> host of a service (nullptr if unset), NotAService for a host
    m_State,                \* checkable -> "HostUp" / "HostDown"
    m_StateType,            \* checkable -> "StateTypeSoft" / "StateTypeHard"
    call,                   \* the call the caller is returning from, with its result
    m_DependencyMutex,      \* checkable -> the thread that holds its mutex, or NoThread
    thread,                 \* thread -> the operation it runs, with its call stack
    held                    \* the contents a watched set had while a call was running

vars == <<m_Dependencies, m_ReverseDependencies, m_Parent, m_Child, m_RedundancyGroup,
          available, m_Host, m_State, m_StateType, call, m_DependencyMutex, thread, held>>

threadVars == <<m_DependencyMutex, thread, held>>

(* Two threads: one runs the reading operations, one the Dependency        *)
(* objects' registration.                                                  *)
Reader == 1
Writer == 2
Threads == {Reader, Writer}
NoThread == 0

(* No thread is running: the state in which the operations are looked at    *)
(* one call at a time.                                                      *)
NoThreads ==
    /\ m_DependencyMutex = [c \in DOMAIN m_Dependencies |-> NoThread]
    /\ thread = [t \in Threads |-> [op |-> "none"]]
    /\ held = {}

Checkables == DOMAIN m_Dependencies

(* ---------------------------------------------------------------------- *)
(* Collaborators (icinga/dependency.hpp, icinga/service.hpp, host.hpp)      *)
(* ---------------------------------------------------------------------- *)
GetParent(dep) == m_Parent[dep]
GetChild(dep) == m_Child[dep]
GetRedundancyGroup(dep) == m_RedundancyGroup[dep]
IsAvailable(dep, dt) == dt \in available[dep]
IsService(self) == m_Host[self] # NotAService
GetHost(self) == m_Host[self]

(* ---------------------------------------------------------------------- *)
(* Helpers for ordered containers                                          *)
(* ---------------------------------------------------------------------- *)
Min(S) == CHOOSE x \in S : \A y \in S : x <= y

RECURSIVE SortedSeq(_)
SortedSeq(S) ==
    IF S = {} THEN <<>> ELSE <<Min(S)>> \o SortedSeq(S \ {Min(S)})

(* ---------------------------------------------------------------------- *)
(* Snapshots and derived views                                             *)
(* ---------------------------------------------------------------------- *)
GetDependencies(self) == SortedSeq(m_Dependencies[self])

GetReverseDependencies(self) == SortedSeq(m_ReverseDependencies[self])

(* The loop of GetParents with the test parent.get() != this left out.      *)
RECURSIVE ParentsLoopKeepsSelf(_, _, _, _)
ParentsLoopKeepsSelf(self, deps, i, parents) ==
    IF i > Len(deps) THEN parents
    ELSE LET parent == GetParent(deps[i])
         IN  IF parent # nullptr
             THEN ParentsLoopKeepsSelf(self, deps, i + 1, parents \cup {parent})
             ELSE ParentsLoopKeepsSelf(self, deps, i + 1, parents)

(* Lines 129-134: the loop over the snapshot of the outgoing dependencies. *)
RECURSIVE ParentsLoop(_, _, _, _)
ParentsLoop(self, deps, i, parents) ==
    IF i > Len(deps) THEN parents
    ELSE LET parent == GetParent(deps[i])
         IN  IF parent # nullptr /\ parent # self
             THEN ParentsLoop(self, deps, i + 1, parents \cup {parent})
             ELSE ParentsLoop(self, deps, i + 1, parents)

GetParents(self) == ParentsLoop(self, GetDependencies(self), 1, {})

(* Lines 143-148: the loop over the snapshot of the incoming dependencies. *)
RECURSIVE ChildrenLoop(_, _, _, _)
ChildrenLoop(self, deps, i, parents) ==
    IF i > Len(deps) THEN parents
    ELSE LET service == GetChild(deps[i])
         IN  IF service # nullptr /\ service # self
             THEN ChildrenLoop(self, deps, i + 1, parents \cup {service})
             ELSE ChildrenLoop(self, deps, i + 1, parents)

GetChildren(self) == ChildrenLoop(self, GetReverseDependencies(self), 1, {})

(* ---------------------------------------------------------------------- *)
(* Checkable::IsReachable                                                  *)
(* ---------------------------------------------------------------------- *)
(* if (failedDependency) *failedDependency = value; *)
Store(failedDependency, value) ==
    IF failedDependency = NoSlot THEN NoSlot ELSE value

(* HostGate with the state type test dropped: a host in a soft non-up       *)
(* state would gate its services too.                                      *)
HostGateAnyStateType(self, dt) ==
    /\ IsService(self)
    /\ dt \in {"DependencyState", "DependencyNotification"}
    /\ GetHost(self) # nullptr
    /\ m_State[GetHost(self)] # "HostUp"

HostGate(self, dt) ==
    /\ IsService(self)
    /\ dt \in {"DependencyState", "DependencyNotification"}
    /\ GetHost(self) # nullptr
    /\ m_State[GetHost(self)] # "HostUp"
    /\ m_StateType[GetHost(self)] = "StateTypeHard"

EmptyMap == [k \in {} |-> nullptr]

(* MapInsert written as violated[key] = dep: an unavailable member seen     *)
(* after an available one would bring the group's entry back.              *)
MapInsertOverwrites(violated, key, dep) ==
    [k \in DOMAIN violated \cup {key} |-> IF k = key THEN dep ELSE violated[k]]

(* std::unordered_map::insert: does not overwrite an existing entry *)
MapInsert(violated, key, dep) ==
    IF key \in DOMAIN violated THEN violated
    ELSE [k \in DOMAIN violated \cup {key} |-> IF k = key THEN dep ELSE violated[k]]

(* MapAssign written with insert(): an available member seen after an       *)
(* unavailable one would no longer clear the group's entry.                *)
MapAssignKeepsEntry(violated, key, value) ==
    IF key \in DOMAIN violated THEN violated
    ELSE [k \in DOMAIN violated \cup {key} |-> IF k = key THEN value ELSE violated[k]]

(* violated[key] = value *)
MapAssign(violated, key, value) ==
    [k \in DOMAIN violated \cup {key} |-> IF k = key THEN value ELSE violated[k]]

(* DepsLoop without the early return of lines 89-97: an unavailable         *)
(* non-redundant dependency is filed under the empty group key instead.    *)
RECURSIVE DepsLoopNoEarlyReturn(_, _, _, _)
DepsLoopNoEarlyReturn(deps, i, dt, violated) ==
    IF i > Len(deps) THEN [returned |-> FALSE, violated |-> violated, at |-> Len(deps)]
    ELSE LET dep == deps[i]
             redundancy_group == GetRedundancyGroup(dep)
         IN  IF ~IsAvailable(dep, dt)
             THEN DepsLoopNoEarlyReturn(deps, i + 1, dt,
                                        MapInsert(violated, redundancy_group, dep))
             ELSE IF redundancy_group # ""
                  THEN DepsLoopNoEarlyReturn(deps, i + 1, dt,
                                             MapAssign(violated, redundancy_group, nullptr))
                  ELSE DepsLoopNoEarlyReturn(deps, i + 1, dt, violated)

(* The loop over deps (lines 85-106): either it returns false from inside  *)
(* with the non-redundant dependency that failed, or it ends with the map; *)
(* at is the position of the last dependency whose IsAvailable was called. *)
RECURSIVE DepsLoop(_, _, _, _)
DepsLoop(deps, i, dt, violated) ==
    IF i > Len(deps) THEN [returned |-> FALSE, violated |-> violated, at |-> Len(deps)]
    ELSE LET dep == deps[i]
             redundancy_group == GetRedundancyGroup(dep)
         IN  IF ~IsAvailable(dep, dt)
             THEN IF redundancy_group = ""
                  THEN [returned |-> TRUE, dep |-> dep, at |-> i]
                  ELSE DepsLoop(deps, i + 1, dt, MapInsert(violated, redundancy_group, dep))
             ELSE IF redundancy_group # ""
                  THEN DepsLoop(deps, i + 1, dt, MapAssign(violated, redundancy_group, nullptr))
                  ELSE DepsLoop(deps, i + 1, dt, violated)

(* std::find_if over the unordered_map: the first entry, in the map's      *)
(* iteration order, whose value is not null; nullptr stands for end().     *)
RECURSIVE FindViolator(_, _, _)
FindViolator(violated, order, i) ==
    IF i > Len(order) THEN nullptr
    ELSE IF order[i] \in DOMAIN violated /\ violated[order[i]] # nullptr
         THEN violated[order[i]]
         ELSE FindViolator(violated, order, i + 1)

(* Lines 83-122 for the snapshot deps taken at line 81: the verdict, the    *)
(* dependency that goes to the output slot, and the dependencies whose      *)
(* IsAvailable was called, in order.                                        *)
Verdict(deps, dt, order) ==
    LET loop == DepsLoop(deps, 1, dt, EmptyMap)
        asked == SubSeq(deps, 1, loop.at)
    IN  IF loop.returned THEN [ret |-> FALSE, dep |-> loop.dep, asked |-> asked]
        ELSE LET violator == FindViolator(loop.violated, order, 1)
             IN  IF violator # nullptr
                 THEN [ret |-> FALSE, dep |-> violator, asked |-> asked]
                 ELSE [ret |-> TRUE, dep |-> nullptr, asked |-> asked]

(* OwnDependencies with the find_if of lines 108-117 consulted before the   *)
(* return of lines 89-97: a failed group wins over a non-redundant edge.    *)
OwnDependenciesGroupsFirst(self, dt, order) ==
    LET deps == GetDependencies(self)
        loop == DepsLoop(deps, 1, dt, EmptyMap)
        groups == DepsLoopNoEarlyReturn(deps, 1, dt, EmptyMap)
        violator == FindViolator(groups.violated, order, 1)
        asked == SubSeq(deps, 1, groups.at)
    IN  IF violator # nullptr THEN [ret |-> FALSE, dep |-> violator, asked |-> asked]
        ELSE IF loop.returned THEN [ret |-> FALSE, dep |-> loop.dep, asked |-> asked]
        ELSE [ret |-> TRUE, dep |-> nullptr, asked |-> asked]

(* Lines 81-122: the verdict over the checkable's own dependencies.        *)
OwnDependencies(self, dt, order) == Verdict(GetDependencies(self), dt, order)

(* ---------------------------------------------------------------------- *)
(* The recursion of IsReachable, unfolded into its call stack.  A           *)
(* configuration is [stack, n, rv, failedDependency, depth, cause, origin,  *)
(* log]:                                                                    *)
(* the n frames of the calls in progress, the callee's frame on top of its  *)
(* caller's (the call on top runs with rstack = n - 1), the value the       *)
(* callee that just returned handed to the frame on top, the                *)
(* contents of the caller's output slot, the deepest rstack entered so far, *)
(* and which return statement first produced false ("depth": line 60,       *)
(* "host": line 77, "edge": lines 96 and 115) in the call on which          *)
(* checkable.                                                               *)
(* ---------------------------------------------------------------------- *)
Frame(self) == [self |-> self, pc |-> "entry", parents |-> {}, called |-> nullptr]

Push(stack, frame) == [top |-> frame, rest |-> stack]

Start(self, failedDependency) ==
    [stack |-> Push(<<>>, Frame(self)), n |-> 1, rv |-> "none",
     failedDependency |-> failedDependency, depth |-> 0, cause |-> "none", origin |-> nullptr,
     log |-> <<>>]

(* What the call with rstack = 0 does, in order: "guard" (line 56),         *)
(* "parent" (line 64, the call on parent who), "parentfailed" (line 65,     *)
(* the return after parent who returned false), "gate" (lines 69-70) and    *)
(* "avail" (line 88, IsAvailable of dependency who).                        *)
Log(cfg, kind, who) ==
    IF cfg.n = 1 THEN [cfg EXCEPT !.log = Append(@, [kind |-> kind, who |-> who])] ELSE cfg

RECURSIVE LogAll(_, _, _, _)
LogAll(cfg, kind, whos, i) ==
    IF i > Len(whos) THEN cfg ELSE LogAll(Log(cfg, kind, whos[i]), kind, whos, i + 1)

(* The return statement that produces false, noted once. *)
Fail(cfg, cause) ==
    [cfg EXCEPT !.cause = cause, !.origin = cfg.stack.top.self]

Halted(cfg) == cfg.n = 0

(* return value; *)
Return(cfg, value) ==
    [cfg EXCEPT !.stack = @.rest, !.n = @ - 1, !.rv = IF value THEN "true" ELSE "false"]

(* Entry with the guard written rstack >= ceiling: a chain as deep as the   *)
(* ceiling would be cut one level early.                                   *)
EntryOffByOne(cfg) ==
    LET rstack == cfg.n - 1
    IN  IF rstack >= l_MaxDependencyRecursionLevel
        THEN Return(Fail(cfg, "depth"), FALSE)
        ELSE [cfg EXCEPT !.stack.top.pc = "parents",
                         !.stack.top.parents = GetParents(cfg.stack.top.self)]

(* Entry with the guard clearing the caller's slot before it returns.      *)
EntryClearsSlot(cfg) ==
    LET rstack == cfg.n - 1
    IN  IF rstack > l_MaxDependencyRecursionLevel
        THEN Return([Fail(cfg, "depth") EXCEPT !.failedDependency = Store(@, nullptr)], FALSE)
        ELSE [cfg EXCEPT !.stack.top.pc = "parents",
                         !.stack.top.parents = GetParents(cfg.stack.top.self)]

(* Entry with the guard comparing against twice the ceiling: the recursion *)
(* would still end, but far deeper than the ceiling allows.                *)
EntryLateGuard(cfg) ==
    LET rstack == cfg.n - 1
    IN  IF rstack > 2 * l_MaxDependencyRecursionLevel
        THEN Return(Fail(cfg, "depth"), FALSE)
        ELSE [cfg EXCEPT !.stack.top.pc = "parents",
                         !.stack.top.parents = GetParents(cfg.stack.top.self)]

(* Lines 56-63: the depth guard, then the snapshot GetParents() the loop    *)
(* iterates.                                                                *)
Entry(cfg) ==
    LET rstack == cfg.n - 1
        guarded == Log(cfg, "guard", cfg.stack.top.self)
    IN  IF rstack > l_MaxDependencyRecursionLevel
        THEN Return(Fail(guarded, "depth"), FALSE)
        ELSE [guarded EXCEPT !.stack.top.pc = "parents",
                             !.stack.top.parents = GetParents(cfg.stack.top.self)]

(* Evaluate without line 120: a reachable checkable leaves the slot as it   *)
(* found it.                                                               *)
EvaluateKeepsSlot(cfg, dt, order) ==
    LET self == cfg.stack.top.self
    IN  IF HostGate(self, dt)
        THEN Return([Fail(cfg, "host") EXCEPT !.failedDependency = Store(@, nullptr)], FALSE)
        ELSE LET own == OwnDependencies(self, dt, order)
             IN  IF own.ret THEN Return(cfg, TRUE)
                 ELSE Return([Fail(cfg, "edge") EXCEPT !.failedDependency = Store(@, own.dep)],
                             FALSE)

(* Evaluate without lines 74-75: the host gate returns false and leaves    *)
(* the slot as it found it.                                                *)
EvaluateGateKeepsSlot(cfg, dt, order) ==
    LET self == cfg.stack.top.self
    IN  IF HostGate(self, dt)
        THEN Return(Fail(cfg, "host"), FALSE)
        ELSE LET own == OwnDependencies(self, dt, order)
             IN  IF own.ret
                 THEN Return([cfg EXCEPT !.failedDependency = Store(@, nullptr)], TRUE)
                 ELSE Return([Fail(cfg, "edge") EXCEPT !.failedDependency = Store(@, own.dep)],
                             FALSE)

(* Lines 68-122, reached when every parent returned true. *)
Evaluate(cfg, dt, order) ==
    LET self == cfg.stack.top.self
        gated == Log(cfg, "gate", self)
    IN  IF HostGate(self, dt)
        THEN Return([Fail(gated, "host") EXCEPT !.failedDependency = Store(@, nullptr)], FALSE)
        ELSE LET own == OwnDependencies(self, dt, order)
                 asked == LogAll(gated, "avail", own.asked, 1)
             IN  IF own.ret
                 THEN Return([asked EXCEPT !.failedDependency = Store(@, nullptr)], TRUE)
                 ELSE Return([Fail(asked, "edge") EXCEPT !.failedDependency = Store(@, own.dep)],
                             FALSE)

(* Loop without line 65: a parent that returned false is skipped like one  *)
(* that returned true.                                                     *)
LoopIgnoresParent(cfg, dt, order) ==
    LET frame == cfg.stack.top
    IN  IF frame.parents # {}
        THEN LET checkable == Min(frame.parents)
             IN  [cfg EXCEPT !.stack = Push([@ EXCEPT !.top.parents = @ \ {checkable}],
                                            Frame(checkable)),
                             !.n = @ + 1,
                             !.rv = "none",
                             !.depth = IF cfg.n > @ THEN cfg.n ELSE @]
        ELSE Evaluate([cfg EXCEPT !.rv = "none"], dt, order)

(* Loop with the return of line 65 moved behind the loop: a parent that     *)
(* returned false is remembered and the remaining parents are still called. *)
LoopNoShortCircuit(cfg, dt, order) ==
    LET frame == cfg.stack.top
        failed == cfg.rv = "false" \/ frame.pc = "failed"
        noted == IF cfg.rv = "false" THEN Log(cfg, "parentfailed", frame.called) ELSE cfg
    IN  IF frame.parents # {}
        THEN LET checkable == Min(frame.parents)
             IN  [Log(noted, "parent", checkable) EXCEPT
                             !.stack = Push([@ EXCEPT !.top.parents = @ \ {checkable},
                                                      !.top.called = checkable,
                                                      !.top.pc = IF failed THEN "failed" ELSE @],
                                            Frame(checkable)),
                             !.n = @ + 1,
                             !.rv = "none",
                             !.depth = IF cfg.n > @ THEN cfg.n ELSE @]
        ELSE IF failed THEN Return(noted, FALSE)
        ELSE Evaluate([cfg EXCEPT !.rv = "none"], dt, order)

(* Lines 63-66: the next parent in the set's order is called with           *)
(* rstack + 1; a callee that returned false makes this call return false.   *)
Loop(cfg, dt, order) ==
    LET frame == cfg.stack.top
    IN  IF cfg.rv = "false" THEN Return(Log(cfg, "parentfailed", frame.called), FALSE)
        ELSE IF frame.parents # {}
        THEN LET checkable == Min(frame.parents)
             IN  [Log(cfg, "parent", checkable) EXCEPT
                             !.stack = Push([@ EXCEPT !.top.parents = @ \ {checkable},
                                                      !.top.called = checkable],
                                            Frame(checkable)),
                             !.n = @ + 1,
                             !.rv = "none",
                             !.depth = IF cfg.n > @ THEN cfg.n ELSE @]
        ELSE Evaluate([cfg EXCEPT !.rv = "none"], dt, order)

(* One step of the evaluation. *)
Step(cfg, dt, order) ==
    IF Halted(cfg) THEN cfg
    ELSE IF cfg.stack.top.pc = "entry" THEN Entry(cfg)
    ELSE Loop(cfg, dt, order)

(* n steps, or fewer if the evaluation halts; the recursion is balanced so  *)
(* that its own depth stays logarithmic in n.                               *)
RECURSIVE Iterate(_, _, _, _)
Iterate(cfg, n, dt, order) ==
    IF Halted(cfg) THEN cfg
    ELSE IF n = 1 THEN Step(cfg, dt, order)
    ELSE Iterate(Iterate(cfg, n \div 2, dt, order), n - (n \div 2), dt, order)

RECURSIVE Run(_, _, _, _)
Run(cfg, n, dt, order) ==
    LET r == Iterate(cfg, n, dt, order)
    IN  IF Halted(r) THEN r ELSE Run(r, 2 * n, dt, order)

(* bool Checkable::IsReachable(dt, failedDependency, rstack = 0): the whole *)
(* call, as [ret, failedDependency, depth, cause, origin, log].             *)
IsReachable(self, dt, failedDependency, order) ==
    LET r == Run(Start(self, failedDependency), 16, dt, order)
    IN  [ret |-> r.rv = "true", failedDependency |-> r.failedDependency, depth |-> r.depth,
         cause |-> r.cause, origin |-> r.origin, log |-> r.log]

(* ---------------------------------------------------------------------- *)
(* Checkable::GetAllChildren and GetAllChildrenInternal.                    *)
(*                                                                          *)
(* GetAllChildrenInternal(children, level) reads nothing but its arguments  *)
(* and the store, and every set it is called with is GetChildren() of some  *)
(* checkable c, so what it leaves in children is a function of (c, level).  *)
(* The recursion is evaluated level by level: Callers lists, for each       *)
(* level, the checkables whose children set a call of that level is made    *)
(* on, and the results are computed from the deepest level upwards.         *)
(* ---------------------------------------------------------------------- *)
(* The checkables the calls of the next level are made for: line 198. *)
NextCallers(callers) ==
    {k \in UNION {GetChildren(c) : c \in callers} : GetChildren(k) # {}}

(* Levels 0 .. l_MaxDependencyRecursionLevel + 1 at most: the call of a     *)
(* level above the ceiling returns at line 192 without calling.             *)
CallersStep(P) ==
    IF Len(P) > l_MaxDependencyRecursionLevel + 1 \/ P[Len(P)] = {} THEN P
    ELSE Append(P, NextCallers(P[Len(P)]))

RECURSIVE Callers(_, _)
Callers(P, n) ==
    IF P[Len(P)] = {} THEN P
    ELSE IF n = 1 THEN CallersStep(P)
    ELSE Callers(Callers(P, n \div 2), n - (n \div 2))

(* What the call of the next level left in cChildren for checkable; the    *)
(* results of a level are kept as pairs <<checkable, set>>.                 *)
Left(deeper, checkable) == (CHOOSE pr \in deeper : pr[1] = checkable)[2]

(* GetAllChildrenInternal without line 199: what the recursive call found  *)
(* is not collected.                                                       *)
GetAllChildrenInternalNoMerge(c, level, deeper) ==
    LET children == GetChildren(c)
    IN  IF level > l_MaxDependencyRecursionLevel THEN children
        ELSE LET localChildren ==
                     UNION {(IF level # 0 THEN {checkable} ELSE {}) : checkable \in children}
             IN  {k \in children \cup localChildren : TRUE}

(* Lines 187-209 for children = GetChildren(c): deeper holds, for each      *)
(* checkable the next level is called for, what that call leaves in         *)
(* cChildren.                                                               *)
GetAllChildrenInternal(c, level, deeper) ==
    LET children == GetChildren(c)
    IN  IF level > l_MaxDependencyRecursionLevel THEN children
        ELSE LET localChildren ==
                     UNION {(IF GetChildren(checkable) # {}
                                THEN Left(deeper, checkable) ELSE {})
                            \cup (IF level # 0 THEN {checkable} ELSE {}) :
                            checkable \in children}
             IN  {k \in children \cup localChildren : TRUE}

(* From the results of level st.level to those of the level above. *)
LevelStep(P, st) ==
    IF st.level = 0 THEN st
    ELSE [level |-> st.level - 1,
          result |-> {<<c, GetAllChildrenInternal(c, st.level - 1, st.result)>> :
                         c \in P[st.level]}]

RECURSIVE Levels(_, _, _)
Levels(P, st, n) ==
    IF st.level = 0 THEN st
    ELSE IF n = 1 THEN LevelStep(P, st)
    ELSE Levels(P, Levels(P, st, n \div 2), n - (n \div 2))

(* std::set<Checkable::Ptr> Checkable::GetAllChildren() const *)
GetAllChildren(self) ==
    LET P == Callers(<<{self}>>, l_MaxDependencyRecursionLevel + 1)
        deepest == Len(P) - 1
        bottom == [level |-> deepest,
                   result |-> {<<c, GetAllChildrenInternal(c, deepest, {})>> :
                                  c \in P[Len(P)]}]
    IN  Left(Levels(P, bottom, deepest + 1).result, self)

(* ---------------------------------------------------------------------- *)
(* Calls.  call holds the call the caller has just made and what it         *)
(* returned; the caller takes the result (Continue) before anything else    *)
(* happens.                                                                 *)
(* ---------------------------------------------------------------------- *)
Idle == [op |-> "none"]

(* The iteration orders an unordered_map over the group keys can have. *)
MapOrders ==
    {o \in [1 .. Cardinality(RedundancyGroups) -> RedundancyGroups] :
        \A g \in RedundancyGroups : \E i \in DOMAIN o : o[i] = g}

Deps == DOMAIN m_Parent

(* The values a caller's Dependency::Ptr holds before the call: null, or a  *)
(* dependency left there by earlier code; NoSlot: no slot is passed.        *)
SlotValues == {nullptr, NoSlot, Min(Deps)}

IsReachableCall(self, dt, failedDependency, order) ==
    /\ call = Idle
    /\ \E r \in {IsReachable(self, dt, failedDependency, order)} :
           call' = [op |-> "IsReachable", self |-> self, dt |-> dt,
                    slot |-> failedDependency, order |-> order,
                    ret |-> r.ret, failedDependency |-> r.failedDependency,
                    depth |-> r.depth, cause |-> r.cause, origin |-> r.origin,
                    log |-> r.log]
    /\ UNCHANGED threadVars
    /\ UNCHANGED <<m_Dependencies, m_ReverseDependencies, m_Parent, m_Child,
                   m_RedundancyGroup, available, m_Host, m_State, m_StateType>>

GetParentsCall(self) ==
    /\ call = Idle
    /\ call' = [op |-> "GetParents", self |-> self, result |-> GetParents(self)]
    /\ UNCHANGED threadVars
    /\ UNCHANGED <<m_Dependencies, m_ReverseDependencies, m_Parent, m_Child,
                   m_RedundancyGroup, available, m_Host, m_State, m_StateType>>

GetChildrenCall(self) ==
    /\ call = Idle
    /\ call' = [op |-> "GetChildren", self |-> self, result |-> GetChildren(self)]
    /\ UNCHANGED threadVars
    /\ UNCHANGED <<m_Dependencies, m_ReverseDependencies, m_Parent, m_Child,
                   m_RedundancyGroup, available, m_Host, m_State, m_StateType>>

GetAllChildrenCall(self) ==
    /\ call = Idle
    /\ call' = [op |-> "GetAllChildren", self |-> self, result |-> GetAllChildren(self)]
    /\ UNCHANGED threadVars
    /\ UNCHANGED <<m_Dependencies, m_ReverseDependencies, m_Parent, m_Child,
                   m_RedundancyGroup, available, m_Host, m_State, m_StateType>>

Continue ==
    /\ call # Idle
    /\ call' = Idle
    /\ UNCHANGED threadVars
    /\ UNCHANGED <<m_Dependencies, m_ReverseDependencies, m_Parent, m_Child,
                   m_RedundancyGroup, available, m_Host, m_State, m_StateType>>

(* ---------------------------------------------------------------------- *)
(* The environment: what Dependency::IsAvailable and Host::GetState /       *)
(* GetStateType answer changes as check results arrive.                     *)
(* ---------------------------------------------------------------------- *)
Registered == UNION {m_Dependencies[c] : c \in Checkables}

AvailabilityChoices == {{}, DependencyTypes}

SetAvailable(dep, types) ==
    /\ call = Idle
    /\ dep \in Registered
    /\ available[dep] # types
    /\ available' = [available EXCEPT ![dep] = types]
    /\ UNCHANGED threadVars
    /\ UNCHANGED <<m_Dependencies, m_ReverseDependencies, m_Parent, m_Child,
                   m_RedundancyGroup, m_Host, m_State, m_StateType, call>>

SetHostState(host, state, type) ==
    /\ call = Idle
    /\ ~IsService(host)
    /\ <<m_State[host], m_StateType[host]>> # <<state, type>>
    /\ m_State' = [m_State EXCEPT ![host] = state]
    /\ m_StateType' = [m_StateType EXCEPT ![host] = type]
    /\ UNCHANGED threadVars
    /\ UNCHANGED <<m_Dependencies, m_ReverseDependencies, m_Parent, m_Child,
                   m_RedundancyGroup, available, m_Host, call>>

(* ---------------------------------------------------------------------- *)
(* SpecReach: reachability queries over configured dependency graphs.       *)
(* The Dependency objects link each checkable to checkables of higher       *)
(* address: dependency d joins the d-th pair (child < parent), pairs        *)
(* ordered by parent, then child, and wrapping around when there are more   *)
(* dependencies than pairs.  Checkable 2 is a Host, the others are          *)
(* Services; service 1 lives on host 2, the other services have no host.    *)
(* ---------------------------------------------------------------------- *)
UpwardPairs == {pr \in (1 .. NumCheckables) \X (1 .. NumCheckables) : pr[1] < pr[2]}

PairRank(pr) == ((pr[2] - 1) * (pr[2] - 2)) \div 2 + pr[1]

PairOf(d) ==
    CHOOSE pr \in UpwardPairs : PairRank(pr) = ((d - 1) % Cardinality(UpwardPairs)) + 1

InitReach ==
    /\ m_Parent = [d \in DepIds |-> PairOf(d)[2]]
    /\ m_Child = [d \in DepIds |-> PairOf(d)[1]]
    /\ \E registered \in SUBSET DepIds :
          /\ m_Dependencies =
                 [c \in 1 .. NumCheckables |-> {d \in registered : PairOf(d)[1] = c}]
          /\ m_ReverseDependencies =
                 [c \in 1 .. NumCheckables |-> {d \in registered : PairOf(d)[2] = c}]
          /\ m_RedundancyGroup \in [DepIds -> {""} \cup RedundancyGroups]
          /\ \A d \in DepIds \ registered : m_RedundancyGroup[d] = ""
    /\ available = [d \in DepIds |-> DependencyTypes]
    /\ m_Host = [c \in 1 .. NumCheckables |->
                    IF c = 2 THEN NotAService ELSE IF c = 1 THEN 2 ELSE nullptr]
    /\ m_State = [c \in 1 .. NumCheckables |-> IF c = 2 THEN "HostUp" ELSE "ServiceOK"]
    /\ m_StateType = [c \in 1 .. NumCheckables |-> "StateTypeHard"]
    /\ call = Idle
    /\ NoThreads

NextReach ==
    \/ \E self \in Checkables, dt \in DependencyTypes, slot \in SlotValues, order \in MapOrders :
          IsReachableCall(self, dt, slot, order)
    \/ Continue
    \/ \E dep \in Deps, types \in AvailabilityChoices : SetAvailable(dep, types)
    \/ \E host \in Checkables, state \in {"HostUp", "HostDown"},
          type \in {"StateTypeSoft", "StateTypeHard"} : SetHostState(host, state, type)

SpecReach == InitReach /\ [][NextReach]_vars

(* ---------------------------------------------------------------------- *)
(* The dependency store (lines 18-46): insert and erase on the two sets of  *)
(* one checkable, each under that checkable's m_DependencyMutex.            *)
(* ---------------------------------------------------------------------- *)
(* std::set::insert and std::set::erase on the set of one checkable. *)
Insert(sets, self, dep) == [sets EXCEPT ![self] = @ \cup {dep}]

(* Erase written erase(begin()): the first dependency of the set goes,      *)
(* whichever was asked for.                                                 *)
EraseFirst(sets, self, dep) ==
    [sets EXCEPT ![self] = IF @ = {} THEN @ ELSE @ \ {Min(@)}]

Erase(sets, self, dep) == [sets EXCEPT ![self] = @ \ {dep}]

AddDependency(self, dep) ==
    /\ call = Idle
    /\ m_Dependencies' = Insert(m_Dependencies, self, dep)
    /\ UNCHANGED threadVars
    /\ UNCHANGED <<m_ReverseDependencies, m_Parent, m_Child, m_RedundancyGroup,
                   available, m_Host, m_State, m_StateType, call>>

(* RemoveDependency erasing with clear(): every dependency of the set goes, *)
(* whether or not dep was in it.                                            *)
RemoveDependencyClears(self, dep) ==
    /\ call = Idle
    /\ m_Dependencies' = [m_Dependencies EXCEPT ![self] = {}]
    /\ UNCHANGED threadVars
    /\ UNCHANGED <<m_ReverseDependencies, m_Parent, m_Child, m_RedundancyGroup,
                   available, m_Host, m_State, m_StateType, call>>

RemoveDependency(self, dep) ==
    /\ call = Idle
    /\ m_Dependencies' = Erase(m_Dependencies, self, dep)
    /\ UNCHANGED threadVars
    /\ UNCHANGED <<m_ReverseDependencies, m_Parent, m_Child, m_RedundancyGroup,
                   available, m_Host, m_State, m_StateType, call>>

AddReverseDependency(self, dep) ==
    /\ call = Idle
    /\ m_ReverseDependencies' = Insert(m_ReverseDependencies, self, dep)
    /\ UNCHANGED threadVars
    /\ UNCHANGED <<m_Dependencies, m_Parent, m_Child, m_RedundancyGroup,
                   available, m_Host, m_State, m_StateType, call>>

RemoveReverseDependency(self, dep) ==
    /\ call = Idle
    /\ m_ReverseDependencies' = Erase(m_ReverseDependencies, self, dep)
    /\ UNCHANGED threadVars
    /\ UNCHANGED <<m_Dependencies, m_Parent, m_Child, m_RedundancyGroup,
                   available, m_Host, m_State, m_StateType, call>>

(* ---------------------------------------------------------------------- *)
(* Spec: the store from construction on.  Every checkable starts with both  *)
(* sets empty.  Dependency d has child StoreChild(d), so that two           *)
(* dependencies share a child, and as parent one of: no parent, its own     *)
(* child (a self-reference), the checkable after its child; dependency 1    *)
(* may also have no child.  A dependency is registered the way              *)
(* Dependency objects register themselves: AddDependency on its child,      *)
(* AddReverseDependency on its parent, each call on its own.                *)
(* ---------------------------------------------------------------------- *)
StoreChild(d) ==
    IF (d \div 2) + 1 > NumCheckables THEN NumCheckables ELSE (d \div 2) + 1

StoreParents(d) == {nullptr, StoreChild(d), (StoreChild(d) % NumCheckables) + 1}

Init ==
    /\ m_Dependencies = [c \in 1 .. NumCheckables |-> {}]
    /\ m_ReverseDependencies = [c \in 1 .. NumCheckables |-> {}]
    /\ m_Parent \in [DepIds -> {nullptr} \cup (1 .. NumCheckables)]
    /\ \A d \in DepIds : m_Parent[d] \in StoreParents(d)
    /\ \E first \in {nullptr, StoreChild(1)} :
          m_Child = [d \in DepIds |-> IF d = 1 THEN first ELSE StoreChild(d)]
    /\ m_RedundancyGroup = [d \in DepIds |-> ""]
    /\ available = [d \in DepIds |-> DependencyTypes]
    /\ m_Host = [c \in 1 .. NumCheckables |-> NotAService]
    /\ m_State = [c \in 1 .. NumCheckables |-> "HostUp"]
    /\ m_StateType = [c \in 1 .. NumCheckables |-> "StateTypeHard"]
    /\ call = Idle
    /\ NoThreads

Next ==
    \/ \E dep \in Deps : GetChild(dep) # nullptr /\ AddDependency(GetChild(dep), dep)
    \/ \E dep \in Deps : GetChild(dep) # nullptr /\ RemoveDependency(GetChild(dep), dep)
    \/ \E dep \in Deps : GetParent(dep) # nullptr /\ AddReverseDependency(GetParent(dep), dep)
    \/ \E dep \in Deps :
          GetParent(dep) # nullptr /\ RemoveReverseDependency(GetParent(dep), dep)
    \/ \E self \in Checkables : GetParentsCall(self)
    \/ \E self \in Checkables : GetChildrenCall(self)
    \/ Continue

Spec == Init /\ [][Next]_vars

(* ---------------------------------------------------------------------- *)
(* SpecDeep: graphs as deep as the recursion ceiling.  Checkables           *)
(* 1 .. DeepTop form a chain, dependency d making d + 1 the parent of d;    *)
(* the chain is configured with its first L dependencies, L from the        *)
(* ceiling upwards.  BackEdge makes BackParent a parent of BackChild, its   *)
(* own child on the chain, which closes a cycle of length 2 when it is      *)
(* added.  Checkables 1 and 2 are Services on the Host DeepHost, and so is  *)
(* DeepLone, which has no dependencies; the other checkables are Hosts.     *)
(* ---------------------------------------------------------------------- *)
ChainSlack == 4

DeepTop == l_MaxDependencyRecursionLevel + ChainSlack
DeepHost == DeepTop + 1
DeepLone == DeepHost + 1
BackEdge == DeepTop
BackChild == 3
BackParent == 2
DeepTargets == {1, 2, 3, DeepLone}
DeepRoots == {l_MaxDependencyRecursionLevel + 1, DeepTop}
DeepToggle == 2
DeepOrder == CHOOSE o \in MapOrders : TRUE
DeepTypes == {"DependencyState", "DependencyCheckExecution"}
DeepSlots == {nullptr, Min(Deps)}

InitDeep ==
    /\ m_Parent = [d \in 1 .. DeepTop |-> IF d = BackEdge THEN BackParent ELSE d + 1]
    /\ m_Child = [d \in 1 .. DeepTop |-> IF d = BackEdge THEN BackChild ELSE d]
    /\ \E L \in l_MaxDependencyRecursionLevel .. DeepTop - 1, back \in SUBSET {BackEdge} :
          /\ m_Dependencies =
                 [c \in 1 .. DeepLone |->
                     {d \in (1 .. L) \cup back : (IF d = BackEdge THEN BackChild ELSE d) = c}]
          /\ m_ReverseDependencies =
                 [c \in 1 .. DeepLone |->
                     {d \in (1 .. L) \cup back :
                         (IF d = BackEdge THEN BackParent ELSE d + 1) = c}]
    /\ m_RedundancyGroup = [d \in 1 .. DeepTop |-> ""]
    /\ available = [d \in 1 .. DeepTop |-> DependencyTypes]
    /\ m_Host = [c \in 1 .. DeepLone |-> IF c \in {1, 2, DeepLone} THEN DeepHost ELSE NotAService]
    /\ m_State = [c \in 1 .. DeepLone |-> IF c \in {1, 2, DeepLone} THEN "ServiceOK" ELSE "HostUp"]
    /\ m_StateType = [c \in 1 .. DeepLone |-> "StateTypeHard"]
    /\ call = Idle
    /\ NoThreads

NextDeep ==
    \/ \E self \in DeepTargets, dt \in DeepTypes, slot \in DeepSlots :
          IsReachableCall(self, dt, slot, DeepOrder)
    \/ \E self \in DeepRoots : GetAllChildrenCall(self)
    \/ Continue
    \/ AddDependency(BackChild, BackEdge)
    \/ RemoveDependency(BackChild, BackEdge)
    \/ \E types \in AvailabilityChoices : SetAvailable(DeepToggle, types)
    \/ \E state \in {"HostUp", "HostDown"} : SetHostState(DeepHost, state, "StateTypeHard")

SpecDeep == InitDeep /\ [][NextDeep]_vars

(* ---------------------------------------------------------------------- *)
(* Vocabulary of the properties below.                                      *)
(* ---------------------------------------------------------------------- *)
Queried == call.op = "IsReachable"

OwnEdges == m_Dependencies[call.self]

Unavailable(dep) == call.dt \notin available[dep]

NonRedundant(dep) == m_RedundancyGroup[dep] = ""

(* The service that is asked has a host in a hard non-up state. *)
HostDownHard ==
    /\ m_Host[call.self] \notin {NotAService, nullptr}
    /\ m_State[m_Host[call.self]] # "HostUp"
    /\ m_StateType[m_Host[call.self]] = "StateTypeHard"

GateFires == HostDownHard /\ call.dt \in {"DependencyState", "DependencyNotification"}

(* What IsReachable returns for each direct parent of the checkable asked. *)
ParentReachable(p) == IsReachable(p, call.dt, nullptr, call.order).ret

ParentsReachable == \A p \in GetParents(call.self) : ParentReachable(p)

OneGroup ==
    /\ OwnEdges # {}
    /\ \E g \in RedundancyGroups : \A d \in OwnEdges : m_RedundancyGroup[d] = g

HasSlot == call.slot # NoSlot

C3_AntiMonotonic ==
    (Queried /\ \E p \in GetParents(call.self) : ~ParentReachable(p)) => ~call.ret

(* The edge to the unreachable parent sits in a redundancy group of X that  *)
(* has another, available member, and all of X's edges are available.       *)
C3_Witness ==
    /\ Queried /\ ~GateFires /\ ~call.ret
    /\ \A d \in OwnEdges : ~Unavailable(d)
    /\ \E d, e \in OwnEdges :
          /\ d # e
          /\ ~NonRedundant(d)
          /\ m_RedundancyGroup[d] = m_RedundancyGroup[e]
          /\ ~ParentReachable(m_Parent[d])

(* ---------------------------------------------------------------------- *)
(* C4: a service whose host is in a hard non-up state is unreachable for    *)
(* state and notification queries whatever its edges are; a service with no *)
(* outgoing edges is unreachable in that case only.                         *)
(* ---------------------------------------------------------------------- *)
C4_HostGate ==
    (Queried /\ m_Host[call.self] # NotAService) =>
        /\ GateFires => ~call.ret
        /\ OwnEdges = {} => (call.ret <=> ~GateFires)

(* The gate fires although the service's edges are available and its        *)
(* parents, the host among them, are reachable.                             *)
C4_Witness ==
    /\ Queried /\ GateFires /\ ~call.ret
    /\ OwnEdges # {}
    /\ \A d \in OwnEdges : ~Unavailable(d)
    /\ m_Host[call.self] \in GetParents(call.self)
    /\ ParentsReachable

(* ---------------------------------------------------------------------- *)
(* C8: a checkable with no outgoing edges and no host in a hard non-up      *)
(* state is reachable for every dependency type, and the violating-edge     *)
(* output is null after the call.                                           *)
(* ---------------------------------------------------------------------- *)
C8_NoDependencies ==
    (Queried /\ OwnEdges = {} /\ ~HostDownHard) =>
        /\ call.ret
        /\ HasSlot => call.failedDependency = nullptr

(* A service on a host that is down, but only softly, asked with a slot     *)
(* that still held a dependency.                                            *)
C8_Witness ==
    /\ Queried /\ OwnEdges = {} /\ ~HostDownHard
    /\ m_Host[call.self] \notin {NotAService, nullptr}
    /\ m_State[m_Host[call.self]] = "HostDown"
    /\ call.slot \notin {nullptr, NoSlot}
    /\ call.ret
    /\ call.failedDependency = nullptr

(* ---------------------------------------------------------------------- *)
(* Walks along parent links.  After k steps the frontier holds the          *)
(* checkables that end a walk of k parent links from the start; links is    *)
(* the length of the longest walk so far and linear says that no frontier   *)
(* held more than one checkable.                                            *)
(* ---------------------------------------------------------------------- *)
WalkStep(w) ==
    IF w.frontier = {} THEN w
    ELSE LET next == UNION {GetParents(c) : c \in w.frontier}
         IN  [frontier |-> next,
              links |-> IF next = {} THEN w.links ELSE w.links + 1,
              linear |-> w.linear /\ Cardinality(next) <= 1]

RECURSIVE Walk(_, _)
Walk(w, n) ==
    IF w.frontier = {} THEN w
    ELSE IF n = 1 THEN WalkStep(w)
    ELSE Walk(Walk(w, n \div 2), n - (n \div 2))

(* A walk longer than there are checkables repeats one. *)
ParentWalk(self) ==
    Walk([frontier |-> {self}, links |-> 0, linear |-> TRUE], Cardinality(Checkables))

(* self has a cycle among its transitive parents; GetParents leaves out    *)
(* self-references, so such a cycle has length >= 2.                       *)
HasCycle(self) == ParentWalk(self).frontier # {}

(* The parent links from self form a linear chain. *)
IsChain(self) == ParentWalk(self).linear /\ ParentWalk(self).frontier = {}

ChainDepth(self) == ParentWalk(self).links

AllAvailable == \A d \in Registered : ~Unavailable(d)

NoGateFires == \A c \in Checkables : ~HostGate(c, call.dt)

(* ---------------------------------------------------------------------- *)
(* C5: on a linear chain of parent links from X0 in which every edge is     *)
(* available and no host gate fires, IsReachable(X0) called at depth 0      *)
(* returns true when the chain has depth up to the ceiling, exactly the     *)
(* ceiling included, and returns false by depth exhaustion, as an ordinary  *)
(* result, when the chain has depth ceiling + 1 or more.                    *)
(* ---------------------------------------------------------------------- *)
C5_DepthCeiling ==
    (Queried /\ IsChain(call.self) /\ AllAvailable /\ NoGateFires) =>
        /\ ChainDepth(call.self) <= l_MaxDependencyRecursionLevel => call.ret
        /\ ChainDepth(call.self) > l_MaxDependencyRecursionLevel =>
               (~call.ret /\ call.cause = "depth")

(* A chain of depth exactly the ceiling: the deepest call runs with rstack  *)
(* equal to the ceiling and the result is true.                             *)
C5_Witness ==
    /\ Queried /\ IsChain(call.self) /\ AllAvailable /\ NoGateFires
    /\ ChainDepth(call.self) = l_MaxDependencyRecursionLevel
    /\ call.depth = l_MaxDependencyRecursionLevel
    /\ call.ret

(* ---------------------------------------------------------------------- *)
(* C6: IsReachable ends on every graph, cyclic ones included.  On the      *)
(* graphs of SpecDeep no call is made twice from the same frame before a    *)
(* false comes back, so a call from any checkable that is asked ends within *)
(* StepLimit steps (three per nested call); the calls never nest deeper     *)
(* than rstack = ceiling + 1; and a checkable with a cycle among its        *)
(* transitive parents gets false, from the depth guard, as the result.      *)
(* ---------------------------------------------------------------------- *)
StepLimit == 3 * (l_MaxDependencyRecursionLevel + 2)

C6_Terminates ==
    /\ call = Idle =>
           \A self \in DeepTargets, dt \in DeepTypes :
               Halted(Iterate(Start(self, nullptr), StepLimit, dt, DeepOrder))
    /\ Queried => call.depth <= l_MaxDependencyRecursionLevel + 1
    /\ (Queried /\ HasCycle(call.self)) => (~call.ret /\ call.cause = "depth")

(* A checkable that is not itself on the cycle its parent is on: the calls  *)
(* go round the cycle down to rstack = ceiling + 1 and false comes back.    *)
C6_Witness ==
    /\ Queried /\ HasCycle(call.self)
    /\ call.self \notin {BackChild, BackParent}
    /\ call.depth = l_MaxDependencyRecursionLevel + 1
    /\ ~call.ret

(* ---------------------------------------------------------------------- *)
(* Why a call returned false: the depth guard, the host gate (of the        *)
(* checkable asked or of an ancestor), or an ancestor.                      *)
(* ---------------------------------------------------------------------- *)
Structural ==
    \/ call.cause = "depth"
    \/ call.cause = "host"
    \/ call.origin # call.self

ChildWalkStep(w) ==
    IF w.frontier = {} THEN w
    ELSE LET next == UNION {GetChildren(c) : c \in w.frontier}
         IN  [frontier |-> {k \in next : TRUE},
              seen |-> {k \in w.seen \cup next : TRUE},
              links |-> IF next = {} THEN w.links ELSE w.links + 1,
              linear |-> w.linear /\ Cardinality(next) <= 1]

RECURSIVE ChildWalkFrom(_, _)
ChildWalkFrom(w, n) ==
    IF w.frontier = {} THEN w
    ELSE IF n = 1 THEN ChildWalkStep(w)
    ELSE ChildWalkFrom(ChildWalkFrom(w, n \div 2), n - (n \div 2))

ChildWalk(self) ==
    ChildWalkFrom([frontier |-> {self}, seen |-> {}, links |-> 0, linear |-> TRUE],
                  Cardinality(Checkables))

Descendants(self) == ChildWalk(self).seen

(* No walk along child links from self is longer than the ceiling. *)
WithinCeiling(self) ==
    /\ ChildWalk(self).frontier = {}
    /\ ChildWalk(self).links <= l_MaxDependencyRecursionLevel

(* ---------------------------------------------------------------------- *)
(* C10: GetAllChildren(X) contains every direct child of X and only         *)
(* descendants of X, on every graph, and it is the transitive closure of    *)
(* GetChildren from X when no path of child links from X is longer than the *)
(* ceiling.  On a linear chain below X it holds the descendants up to       *)
(* ceiling + 2 links away.                                                  *)
(* ---------------------------------------------------------------------- *)
C10_AllChildren ==
    call.op = "GetAllChildren" =>
        /\ GetChildren(call.self) \subseteq call.result
        /\ call.result \subseteq Descendants(call.self)
        /\ WithinCeiling(call.self) => call.result = Descendants(call.self)
        /\ (ChildWalk(call.self).linear /\ ChildWalk(call.self).frontier = {}) =>
               Cardinality(call.result) =
                   IF ChildWalk(call.self).links <= l_MaxDependencyRecursionLevel + 2
                   THEN ChildWalk(call.self).links
                   ELSE l_MaxDependencyRecursionLevel + 2

(* A chain below X deeper than the traversal goes: the result has the       *)
(* direct child of X but not every descendant.                              *)
C10_Witness ==
    /\ call.op = "GetAllChildren"
    /\ GetChildren(call.self) # {}
    /\ GetChildren(call.self) \subseteq call.result
    /\ call.result # Descendants(call.self)

(* ---------------------------------------------------------------------- *)
(* C9: whatever was added to and removed from the two sets, GetParents(X)   *)
(* and GetChildren(X) do not contain X, also when X holds a dependency      *)
(* whose parent and child are both X; GetParents(X) is the set of the       *)
(* parent endpoints other than X of the dependencies in X's outgoing set    *)
(* and GetChildren(X) the set of the child endpoints other than X of the    *)
(* dependencies in X's incoming set.                                        *)
(* ---------------------------------------------------------------------- *)
C9_ParentsChildren ==
    /\ \A X \in Checkables : X \notin GetParents(X) /\ X \notin GetChildren(X)
    /\ call.op = "GetParents" =>
           \A p \in Checkables :
               p \in call.result <=>
                   (p # call.self /\ \E d \in m_Dependencies[call.self] : m_Parent[d] = p)
    /\ call.op = "GetParents" => call.result \subseteq Checkables
    /\ call.op = "GetChildren" =>
           \A c \in Checkables :
               c \in call.result <=>
                   (c # call.self /\ \E d \in m_ReverseDependencies[call.self] : m_Child[d] = c)
    /\ call.op = "GetChildren" => call.result \subseteq Checkables

(* X holds a dependency on itself and one on another checkable: only the    *)
(* other checkable is a parent.                                             *)
C9_Witness ==
    /\ call.op = "GetParents"
    /\ \E d \in m_Dependencies[call.self] : m_Parent[d] = call.self /\ m_Child[d] = call.self
    /\ \E d \in m_ReverseDependencies[call.self] : m_Parent[d] = call.self /\ m_Child[d] = call.self
    /\ call.result # {}
    /\ call.self \notin call.result

(* ---------------------------------------------------------------------- *)
(* Checkable::GetAllChildrenCount                                           *)
(* ---------------------------------------------------------------------- *)
(* The count taken without a set of visited children: every child and, for  *)
(* each child, what it counts itself, so that a checkable is counted once   *)
(* for every path that leads to it.                                         *)
RECURSIVE CountPaths(_)
CountPaths(todo) ==
    IF todo = {} THEN 0
    ELSE LET c == Min(todo)
         IN  1 + CountPaths(GetChildren(c)) + CountPaths(todo \ {c})

GetAllChildrenCountPaths(self) == CountPaths(GetChildren(self))

(* size_t Checkable::GetAllChildrenCount() const: GetAllChildren().size() *)
GetAllChildrenCount(self) == Cardinality(GetAllChildren(self))

GetAllChildrenCountCall(self) ==
    /\ call = Idle
    /\ call' = [op |-> "GetAllChildrenCount", self |-> self,
                result |-> GetAllChildrenCount(self)]
    /\ UNCHANGED threadVars
    /\ UNCHANGED <<m_Dependencies, m_ReverseDependencies, m_Parent, m_Child,
                   m_RedundancyGroup, available, m_Host, m_State, m_StateType>>

(* ---------------------------------------------------------------------- *)
(* SpecDiamond: descendants that several paths lead to.  FanTop is the      *)
(* parent of every checkable of FanMiddle, and each of those is a parent of *)
(* checkable 1.  The incoming sets start empty and the dependencies are     *)
(* added to and removed from the incoming set of their parents.             *)
(* ---------------------------------------------------------------------- *)
FanTop == NumCheckables + 1
FanMiddle == 2 .. NumCheckables
FanDeps == 1 .. 2 * (NumCheckables - 1)

FanParent(d) == IF d <= NumCheckables - 1 THEN FanTop ELSE d - (NumCheckables - 1) + 1

FanChild(d) == IF d <= NumCheckables - 1 THEN d + 1 ELSE 1

InitDiamond ==
    /\ m_Dependencies = [c \in 1 .. FanTop |-> {}]
    /\ m_ReverseDependencies = [c \in 1 .. FanTop |-> {}]
    /\ m_Parent = [d \in FanDeps |-> FanParent(d)]
    /\ m_Child = [d \in FanDeps |-> FanChild(d)]
    /\ m_RedundancyGroup = [d \in FanDeps |-> ""]
    /\ available = [d \in FanDeps |-> DependencyTypes]
    /\ m_Host = [c \in 1 .. FanTop |-> NotAService]
    /\ m_State = [c \in 1 .. FanTop |-> "HostUp"]
    /\ m_StateType = [c \in 1 .. FanTop |-> "StateTypeHard"]
    /\ call = Idle
    /\ NoThreads

NextDiamond ==
    \/ \E dep \in Deps : AddReverseDependency(GetParent(dep), dep)
    \/ \E dep \in Deps : RemoveReverseDependency(GetParent(dep), dep)
    \/ \E self \in Checkables : GetAllChildrenCall(self)
    \/ \E self \in Checkables : GetAllChildrenCountCall(self)
    \/ Continue

SpecDiamond == InitDiamond /\ [][NextDiamond]_vars

(* ---------------------------------------------------------------------- *)
(* C11: GetAllChildrenCount(X) is the number of elements of                 *)
(* GetAllChildren(X) in the same state of the graph; on these graphs that   *)
(* is the number of descendants of X, each counted once however many paths  *)
(* lead to it, and a GetAllChildren call returns a set of that size.        *)
(* ---------------------------------------------------------------------- *)
C11_Count ==
    /\ call.op = "GetAllChildrenCount" =>
           /\ call.result = Cardinality(GetAllChildren(call.self))
           /\ call.result = Cardinality(Descendants(call.self))
    /\ call.op = "GetAllChildren" =>
           Cardinality(call.result) = GetAllChildrenCount(call.self)

(* The diamond: X has children B and D, both have child C, and the count is *)
(* 3.                                                                       *)
C11_Witness ==
    /\ call.op = "GetAllChildrenCount"
    /\ \E B, D \in GetChildren(call.self) :
          /\ B # D
          /\ \E C \in GetChildren(B) \cap GetChildren(D) :
                GetAllChildren(call.self) = {B, D, C}
    /\ call.result = 3

(* ---------------------------------------------------------------------- *)
(* C12: the store has set semantics.  A step that adds dep to a set of self *)
(* leaves the set with dep and with what it held, so it changes nothing     *)
(* when dep was there (Add;Add = Add); a step that removes dep leaves the   *)
(* set without dep and otherwise as it was, so it changes nothing when dep  *)
(* was not there, and it takes back what Add put in; no other set changes.  *)
(* ---------------------------------------------------------------------- *)
C12_SetSemantics ==
    [][\A self \in Checkables, dep \in Deps :
          /\ AddDependency(self, dep) =>
                 /\ m_Dependencies' =
                        [m_Dependencies EXCEPT ![self] = m_Dependencies[self] \cup {dep}]
                 /\ dep \in m_Dependencies[self] => m_Dependencies' = m_Dependencies
                 /\ [m_Dependencies' EXCEPT ![self] = @ \ {dep}] =
                        [m_Dependencies EXCEPT ![self] = @ \ {dep}]
          /\ RemoveDependency(self, dep) =>
                 /\ m_Dependencies' =
                        [m_Dependencies EXCEPT ![self] = m_Dependencies[self] \ {dep}]
                 /\ dep \notin m_Dependencies[self] => m_Dependencies' = m_Dependencies
          /\ AddReverseDependency(self, dep) =>
                 /\ m_ReverseDependencies' =
                        [m_ReverseDependencies EXCEPT
                            ![self] = m_ReverseDependencies[self] \cup {dep}]
                 /\ dep \in m_ReverseDependencies[self] =>
                        m_ReverseDependencies' = m_ReverseDependencies
          /\ RemoveReverseDependency(self, dep) =>
                 /\ m_ReverseDependencies' =
                        [m_ReverseDependencies EXCEPT
                            ![self] = m_ReverseDependencies[self] \ {dep}]
                 /\ dep \notin m_ReverseDependencies[self] =>
                        m_ReverseDependencies' = m_ReverseDependencies]_vars

(* A state in which one dependency is in the outgoing set of its child and  *)
(* another one, of the same child, is not: adding the first again and       *)
(* removing the second are both possible.                                   *)
C12_Witness ==
    \E self \in Checkables, dep, other \in Deps :
        /\ dep \in m_Dependencies[self]
        /\ other \notin m_Dependencies[self]
        /\ GetChild(other) = self
        /\ GetParent(dep) # nullptr
        /\ dep \in m_ReverseDependencies[GetParent(dep)]
        /\ ENABLED AddDependency(self, dep)
        /\ ENABLED RemoveDependency(self, other)

(* ---------------------------------------------------------------------- *)
(* SpecEdges: the store as the Dependency objects use it.  A Dependency     *)
(* registers itself with AddDependency on its child and                     *)
(* AddReverseDependency on its parent, and unregisters itself with the two  *)
(* Remove calls; AddEdge and RemoveEdge are these pairs of calls, completed.*)
(* ---------------------------------------------------------------------- *)
AddEdge(dep) ==
    /\ call = Idle
    /\ GetChild(dep) # nullptr /\ GetParent(dep) # nullptr
    /\ m_Dependencies' = Insert(m_Dependencies, GetChild(dep), dep)
    /\ m_ReverseDependencies' = Insert(m_ReverseDependencies, GetParent(dep), dep)
    /\ UNCHANGED threadVars
    /\ UNCHANGED <<m_Parent, m_Child, m_RedundancyGroup,
                   available, m_Host, m_State, m_StateType, call>>

RemoveEdge(dep) ==
    /\ call = Idle
    /\ GetChild(dep) # nullptr /\ GetParent(dep) # nullptr
    /\ m_Dependencies' = Erase(m_Dependencies, GetChild(dep), dep)
    /\ m_ReverseDependencies' = Erase(m_ReverseDependencies, GetParent(dep), dep)
    /\ UNCHANGED threadVars
    /\ UNCHANGED <<m_Parent, m_Child, m_RedundancyGroup,
                   available, m_Host, m_State, m_StateType, call>>

NextEdges ==
    \/ \E dep \in Deps : AddEdge(dep)
    \/ \E dep \in Deps : RemoveEdge(dep)
    \/ \E self \in Checkables : GetParentsCall(self)
    \/ \E self \in Checkables : GetChildrenCall(self)
    \/ Continue

SpecEdges == Init /\ [][NextEdges]_vars

Events(kind) == {i \in 1 .. Len(call.log) : call.log[i].kind = kind}

(* The position of an event's kind in the order of the function's body. *)
GateRank(kind) ==
    CASE kind = "guard" -> 0
      [] kind \in {"parent", "parentfailed"} -> 1
      [] kind = "gate" -> 2
      [] kind = "avail" -> 3

(* C15: within one IsReachable(X) the depth guard is evaluated first, then   *)
(* the parents, then the host gate, then X's own edges; once a parent has   *)
(* returned false the call returns false at once: no further parent is      *)
(* called, the host gate is not consulted and no availability predicate of  *)
(* X's own edges is evaluated.                                              *)
C15_GateOrder ==
    Queried =>
        /\ Len(call.log) >= 1
        /\ Events("guard") = {1}
        /\ \A i, j \in 1 .. Len(call.log) :
               i < j => GateRank(call.log[i].kind) <= GateRank(call.log[j].kind)
        /\ Cardinality(Events("gate")) <= 1
        /\ \A i \in Events("parent") :
               /\ call.log[i].who \in GetParents(call.self)
               /\ \A j \in Events("parent") : j # i => call.log[j].who # call.log[i].who
        /\ \A i \in Events("avail") : call.log[i].who \in OwnEdges
        /\ \A i \in Events("parent") :
               ~ParentReachable(call.log[i].who) =>
                   /\ Len(call.log) = i + 1
                   /\ call.log[i + 1] = [kind |-> "parentfailed", who |-> call.log[i].who]
                   /\ ~call.ret
        /\ \A i \in Events("parentfailed") :
               /\ i = Len(call.log)
               /\ i > 1
               /\ call.log[i - 1] = [kind |-> "parent", who |-> call.log[i].who]
               /\ ~ParentReachable(call.log[i].who)
        /\ Events("parentfailed") = {} =>
               /\ {call.log[i].who : i \in Events("parent")} = GetParents(call.self)
               /\ Cardinality(Events("gate")) = 1

(* The first of two parents is unreachable: the second one is never called, *)
(* the host, down in a hard state, is not consulted, and the unavailable    *)
(* own edge is not asked.                                                   *)
C15_Witness ==
    /\ Queried
    /\ Cardinality(GetParents(call.self)) = 2
    /\ ~ParentReachable(Min(GetParents(call.self)))
    /\ GateFires
    /\ \E d \in OwnEdges : Unavailable(d)
    /\ call.log = << [kind |-> "guard", who |-> call.self],
                     [kind |-> "parent", who |-> Min(GetParents(call.self))],
                     [kind |-> "parentfailed", who |-> Min(GetParents(call.self))] >>
    /\ ~call.ret

(* ---------------------------------------------------------------------- *)
(* What the output slot names after a call that started with a null slot.  *)
(* ---------------------------------------------------------------------- *)
RECURSIVE Up(_, _)
Up(found, n) ==
    IF n = 0 THEN found
    ELSE Up(found \cup UNION {GetParents(c) : c \in found}, n - 1)

(* self and its transitive parents. *)
SelfAndParents(self) == Up({self}, Cardinality(Checkables))

(* Every edge of owner that carries dep's group key is unavailable. *)
GroupFailed(owner, dep) ==
    \A e \in m_Dependencies[owner] :
        m_RedundancyGroup[e] = m_RedundancyGroup[dep] => Unavailable(e)

(* C18: for a call started with a null output slot: a true result leaves    *)
(* the slot null; a non-null slot comes with a false result and names an    *)
(* edge that is unavailable for dt, is an outgoing edge of X or of a        *)
(* transitive parent of X, and is non-redundant or belongs to a redundancy  *)
(* group of its owner in which every edge is unavailable.                   *)
C18_SoundViolator ==
    (Queried /\ call.slot = nullptr) =>
        /\ call.ret => call.failedDependency = nullptr
        /\ call.failedDependency # nullptr =>
               /\ ~call.ret
               /\ call.failedDependency \in Deps
               /\ Unavailable(call.failedDependency)
               /\ \E owner \in SelfAndParents(call.self) :
                      /\ call.failedDependency \in m_Dependencies[owner]
                      /\ \/ NonRedundant(call.failedDependency)
                         \/ GroupFailed(owner, call.failedDependency)

(* The slot names an edge of a parent; that edge is in a redundancy group,  *)
(* and X has an unavailable own edge in a group that has not failed.        *)
C18_Witness ==
    /\ Queried
    /\ call.slot = nullptr
    /\ ~call.ret
    /\ call.failedDependency \in Deps \ OwnEdges
    /\ \E owner \in GetParents(call.self) :
           /\ call.failedDependency \in m_Dependencies[owner]
           /\ ~NonRedundant(call.failedDependency)
           /\ GroupFailed(owner, call.failedDependency)
    /\ \E d \in OwnEdges : Unavailable(d) /\ ~NonRedundant(d) /\ ~GroupFailed(call.self, d)

(* ---------------------------------------------------------------------- *)
(* Which of two causes among X's own edges is reported.                     *)
(* ---------------------------------------------------------------------- *)
FailedNonRedundant == {d \in OwnEdges : Unavailable(d) /\ NonRedundant(d)}

FailedInGroup == {d \in OwnEdges : ~NonRedundant(d) /\ GroupFailed(call.self, d)}

LockedFunctions ==
    {"AddDependency", "RemoveDependency", "GetDependencies",
     "AddReverseDependency", "RemoveReverseDependency", "GetReverseDependencies"}

None == [kind |-> "none"]
Value(kind, value) == [kind |-> kind, value |-> value]

ThreadFrame(fn, self, dep, children, level) ==
    [fn |-> fn, pc |-> "entry", self |-> self, dep |-> dep, children |-> children,
     todo |-> {}, acc |-> {}, level |-> level]

(* A call of fn on self; the caller goes on at pc when it returns. *)
CallFunction(cfg, pc, frame) ==
    [cfg EXCEPT !.stack = Push([@ EXCEPT !.top.pc = pc], frame), !.n = @ + 1, !.rv = None]

ReturnValue(cfg, rv) ==
    [cfg EXCEPT !.stack = @.rest, !.n = @ - 1, !.rv = rv]

StartThread(fn, self, dep, dt, failedDependency, order) ==
    [op |-> fn, self |-> self, dt |-> dt, order |-> order,
     failedDependency |-> failedDependency,
     stack |-> Push(<<>>, ThreadFrame(fn, self, dep, {}, 0)), n |-> 1, rv |-> None,
     instant |-> {}]

Returned(cfg) == cfg.n = 0

(* The thread is at the unique_lock of one of the six functions. *)
AtMutex(cfg) == ~Returned(cfg) /\ cfg.stack.top.fn \in LockedFunctions

(* Lines 125-137, around the call of GetDependencies. *)
GetParentsStep(cfg) ==
    LET frame == cfg.stack.top
    IN  IF frame.pc = "entry"
        THEN CallFunction(cfg, "loop", ThreadFrame("GetDependencies", frame.self, nullptr, {}, 0))
        ELSE ReturnValue(cfg, Value("set", ParentsLoop(frame.self, cfg.rv.value, 1, {})))

(* Lines 139-151, around the call of GetReverseDependencies. *)
GetChildrenStep(cfg) ==
    LET frame == cfg.stack.top
    IN  IF frame.pc = "entry"
        THEN CallFunction(cfg, "loop",
                          ThreadFrame("GetReverseDependencies", frame.self, nullptr, {}, 0))
        ELSE ReturnValue(cfg, Value("set", ChildrenLoop(frame.self, cfg.rv.value, 1, {})))

(* Lines 54-123 between two calls: level is rstack, todo the parents not    *)
(* yet called, acc (kept for the outermost call) the contents of the set    *)
(* when GetParents took its snapshot.                                       *)
IsReachableStep(cfg) ==
    LET frame == cfg.stack.top
    IN  CASE frame.pc = "entry" ->
                 IF frame.level > l_MaxDependencyRecursionLevel
                 THEN ReturnValue(cfg, Value("bool", FALSE))
                 ELSE CallFunction(cfg, "parents",
                                   ThreadFrame("GetParents", frame.self, nullptr, {}, 0))
          [] frame.pc = "parents" ->
                 [cfg EXCEPT !.stack.top.todo = cfg.rv.value,
                             !.stack.top.acc = IF frame.level = 0 THEN cfg.instant ELSE {},
                             !.stack.top.pc = "loop",
                             !.rv = None]
          [] frame.pc = "loop" ->
                 IF cfg.rv = Value("bool", FALSE) THEN ReturnValue(cfg, Value("bool", FALSE))
                 ELSE IF frame.todo # {}
                 THEN LET checkable == Min(frame.todo)
                      IN  CallFunction([cfg EXCEPT !.stack.top.todo = @ \ {checkable}], "loop",
                                       ThreadFrame("IsReachable", checkable, nullptr, {},
                                                   frame.level + 1))
                 ELSE IF HostGate(frame.self, cfg.dt)
                 THEN ReturnValue([cfg EXCEPT !.failedDependency = Store(@, nullptr)],
                                  Value("bool", FALSE))
                 ELSE CallFunction(cfg, "deps",
                                   ThreadFrame("GetDependencies", frame.self, nullptr, {}, 0))
          [] frame.pc = "deps" ->
                 LET own == Verdict(cfg.rv.value, cfg.dt, cfg.order)
                 IN  ReturnValue([cfg EXCEPT !.failedDependency = Store(@, own.dep)],
                                 Value("bool", own.ret))

(* Lines 169-176. *)
GetAllChildrenStep(cfg) ==
    LET frame == cfg.stack.top
    IN  CASE frame.pc = "entry" ->
                 CallFunction(cfg, "children",
                              ThreadFrame("GetChildren", frame.self, nullptr, {}, 0))
          [] frame.pc = "children" ->
                 CallFunction(cfg, "return",
                              ThreadFrame("GetAllChildrenInternal", frame.self, nullptr,
                                          cfg.rv.value, 0))
          [] frame.pc = "return" -> ReturnValue(cfg, cfg.rv)

(* Lines 187-209 between two calls: children is the set passed by           *)
(* reference, todo what the loop of line 197 has not visited, acc is        *)
(* localChildren and self the checkable of the current iteration.           *)
GetAllChildrenInternalStep(cfg) ==
    LET frame == cfg.stack.top
        own == IF frame.level # 0 THEN {frame.self} ELSE {}
    IN  CASE frame.pc = "entry" ->
                 IF frame.level > l_MaxDependencyRecursionLevel
                 THEN ReturnValue(cfg, Value("set", frame.children))
                 ELSE [cfg EXCEPT !.stack.top.todo = frame.children,
                                  !.stack.top.pc = "loop",
                                  !.rv = None]
          [] frame.pc = "loop" ->
                 IF frame.todo = {}
                 THEN ReturnValue(cfg, Value("set", {k \in frame.children \cup frame.acc : TRUE}))
                 ELSE LET checkable == Min(frame.todo)
                      IN  CallFunction([cfg EXCEPT !.stack.top.todo = @ \ {checkable},
                                                   !.stack.top.self = checkable],
                                       "cChildren",
                                       ThreadFrame("GetChildren", checkable, nullptr, {}, 0))
          [] frame.pc = "cChildren" ->
                 IF cfg.rv.value # {}
                 THEN CallFunction(cfg, "insert",
                                   ThreadFrame("GetAllChildrenInternal", frame.self, nullptr,
                                               cfg.rv.value, frame.level + 1))
                 ELSE [cfg EXCEPT !.stack.top.acc = {k \in @ \cup own : TRUE},
                                  !.stack.top.pc = "loop",
                                  !.rv = None]
          [] frame.pc = "insert" ->
                 [cfg EXCEPT !.stack.top.acc = {k \in @ \cup cfg.rv.value \cup own : TRUE},
                             !.stack.top.pc = "loop",
                             !.rv = None]

(* One step of the thread's own computation. *)
ThreadStep(cfg) ==
    IF Returned(cfg) \/ AtMutex(cfg) THEN cfg
    ELSE LET fn == cfg.stack.top.fn
         IN  CASE fn = "GetParents" -> GetParentsStep(cfg)
               [] fn = "GetChildren" -> GetChildrenStep(cfg)
               [] fn = "IsReachable" -> IsReachableStep(cfg)
               [] fn = "GetAllChildren" -> GetAllChildrenStep(cfg)
               [] fn = "GetAllChildrenInternal" -> GetAllChildrenInternalStep(cfg)

RECURSIVE ThreadIterate(_, _)
ThreadIterate(cfg, n) ==
    IF Returned(cfg) \/ AtMutex(cfg) THEN cfg
    ELSE IF n = 1 THEN ThreadStep(cfg)
    ELSE ThreadIterate(ThreadIterate(cfg, n \div 2), n - (n \div 2))

(* The thread runs until it returns or arrives at a mutex. *)
RECURSIVE ToMutex(_, _)
ToMutex(cfg, n) ==
    LET r == ThreadIterate(cfg, n)
    IN  IF Returned(r) \/ AtMutex(r) THEN r ELSE ToMutex(r, 2 * n)

(* ---------------------------------------------------------------------- *)
(* std::mutex and std::unique_lock (lines 20, 26, 32, 38, 44, 50).          *)
(* ---------------------------------------------------------------------- *)
(* A mutex any thread can lock at any time: no mutual exclusion. *)
CanLockAlways(mutex, self) == TRUE

(* lock() returns only when no thread owns the mutex. *)
CanLock(mutex, self) == mutex[self] = NoThread

(* A unique_lock whose destructor does not unlock. *)
UnlockLeaks(mutex, self) == mutex

(* ~unique_lock at the end of the function's body. *)
Unlock(mutex, self) == [mutex EXCEPT ![self] = NoThread]

(* The set the function of the frame works on. *)
SetOf(frame) ==
    IF frame.fn \in {"AddDependency", "RemoveDependency", "GetDependencies"}
    THEN m_Dependencies[frame.self]
    ELSE m_ReverseDependencies[frame.self]

(* The thread's IsReachable call on self has not returned yet. *)
Watching(self) ==
    /\ thread[Reader].op = "IsReachable"
    /\ thread[Reader].self = self
    /\ ~Returned(thread[Reader])

(* A thread starts an operation and runs up to its first mutex. *)
Begin(t, fn, self, dep, dt, failedDependency, order) ==
    /\ thread[t].op = "none"
    /\ thread' = [thread EXCEPT
                     ![t] = ToMutex(StartThread(fn, self, dep, dt, failedDependency, order), 4)]
    /\ held' = IF t = Reader /\ fn = "IsReachable" THEN {m_Dependencies[self]} ELSE held
    /\ UNCHANGED <<m_Dependencies, m_ReverseDependencies, m_Parent, m_Child, m_RedundancyGroup,
                   available, m_Host, m_State, m_StateType, call, m_DependencyMutex>>

(* The thread is about to construct the unique_lock. *)
Acquiring(t) ==
    /\ thread[t].op # "none"
    /\ AtMutex(thread[t])
    /\ thread[t].stack.top.pc = "entry"

(* The thread is inside the scope of its unique_lock. *)
Holding(t) ==
    /\ thread[t].op # "none"
    /\ AtMutex(thread[t])
    /\ thread[t].stack.top.pc = "locked"

(* std::unique_lock<std::mutex> lock(m_DependencyMutex); *)
Acquire(t) ==
    /\ Acquiring(t)
    /\ CanLock(m_DependencyMutex, thread[t].stack.top.self)
    /\ m_DependencyMutex' = [m_DependencyMutex EXCEPT ![thread[t].stack.top.self] = t]
    /\ thread' = [thread EXCEPT ![t].stack.top.pc = "locked",
                                ![t].instant = SetOf(thread[t].stack.top)]
    /\ UNCHANGED <<m_Dependencies, m_ReverseDependencies, m_Parent, m_Child, m_RedundancyGroup,
                   available, m_Host, m_State, m_StateType, call, held>>

(* The body of the function and the end of the lock's scope (lines 21, 27,  *)
(* 33, 39, 45, 51), then the thread's own computation.                      *)
Release(t) ==
    /\ Holding(t)
    /\ LET frame == thread[t].stack.top
           rv == IF frame.fn \in {"GetDependencies", "GetReverseDependencies"}
                 THEN Value("vector", SortedSeq(SetOf(frame)))
                 ELSE None
       IN  /\ m_Dependencies' =
                  CASE frame.fn = "AddDependency" -> Insert(m_Dependencies, frame.self, frame.dep)
                    [] frame.fn = "RemoveDependency" -> Erase(m_Dependencies, frame.self, frame.dep)
                    [] OTHER -> m_Dependencies
           /\ m_ReverseDependencies' =
                  CASE frame.fn = "AddReverseDependency" ->
                           Insert(m_ReverseDependencies, frame.self, frame.dep)
                    [] frame.fn = "RemoveReverseDependency" ->
                           Erase(m_ReverseDependencies, frame.self, frame.dep)
                    [] OTHER -> m_ReverseDependencies
           /\ m_DependencyMutex' = Unlock(m_DependencyMutex, frame.self)
           /\ thread' = [thread EXCEPT ![t] = ToMutex(ReturnValue(thread[t], rv), 4)]
           /\ held' = IF Watching(frame.self)
                      THEN held \cup {m_Dependencies'[frame.self]}
                      ELSE held
    /\ UNCHANGED <<m_Parent, m_Child, m_RedundancyGroup, available, m_Host, m_State,
                   m_StateType, call>>

(* The caller takes the result; the thread is free for its next operation. *)
End(t) ==
    /\ thread[t].op # "none"
    /\ Returned(thread[t])
    /\ thread' = [thread EXCEPT ![t] = [op |-> "none"]]
    /\ held' = IF t = Reader THEN {} ELSE held
    /\ UNCHANGED <<m_Dependencies, m_ReverseDependencies, m_Parent, m_Child, m_RedundancyGroup,
                   available, m_Host, m_State, m_StateType, call, m_DependencyMutex>>

(* ---------------------------------------------------------------------- *)
(* Two checkables that depend on each other (dependency 1: Front on Back,   *)
(* dependency 2: Back on Front), both registered, and a dependency          *)
(* SelfEdge of Front on itself that the writer registers and unregisters    *)
(* while the reader runs its operations on Front.                           *)
(* ---------------------------------------------------------------------- *)
Front == 1
Back == 2
SelfEdge == 3

ReaderFunctions ==
    {"GetDependencies", "GetReverseDependencies", "GetParents", "GetChildren",
     "IsReachable", "GetAllChildren"}

WriterFunctions ==
    {"AddDependency", "RemoveDependency", "AddReverseDependency", "RemoveReverseDependency"}

InitLocks ==
    /\ m_Parent = [d \in {Front, Back, SelfEdge} |-> IF d = Front THEN Back ELSE Front]
    /\ m_Child = [d \in {Front, Back, SelfEdge} |-> IF d = Back THEN Back ELSE Front]
    /\ m_Dependencies = [c \in {Front, Back} |-> {c}]
    /\ m_ReverseDependencies = [c \in {Front, Back} |-> {IF c = Front THEN Back ELSE Front}]
    /\ m_RedundancyGroup = [d \in {Front, Back, SelfEdge} |-> ""]
    /\ available = [d \in {Front, Back, SelfEdge} |-> DependencyTypes]
    /\ m_Host = [c \in {Front, Back} |-> NotAService]
    /\ m_State = [c \in {Front, Back} |-> "HostUp"]
    /\ m_StateType = [c \in {Front, Back} |-> "StateTypeHard"]
    /\ call = Idle
    /\ NoThreads

NextLocks ==
    \/ \E fn \in ReaderFunctions :
          Begin(Reader, fn, Front, nullptr, "DependencyState", nullptr, DeepOrder)
    \/ \E fn \in WriterFunctions :
          Begin(Writer, fn, Front, SelfEdge, "DependencyState", NoSlot, DeepOrder)
    \/ \E t \in Threads : Acquire(t)
    \/ \E t \in Threads : Release(t)
    \/ \E t \in Threads : End(t)

SpecLocks == InitLocks /\ [][NextLocks]_vars

(* ---------------------------------------------------------------------- *)
(* The mutexes a thread owns, and where it stands.                          *)
(* ---------------------------------------------------------------------- *)
HeldBy(t) == {c \in Checkables : m_DependencyMutex[c] = t}

Running(t) == thread[t].op # "none" /\ ~Returned(thread[t])

(* The thread's lock() returns: Acquire(t) can happen. *)
CanAcquire(t) == Acquiring(t) /\ CanLock(m_DependencyMutex, thread[t].stack.top.self)

(* C13: in every interleaving of threads that run AddDependency,            *)
(* RemoveDependency, GetDependencies, their reverse counterparts,           *)
(* GetParents, GetChildren, IsReachable and GetAllChildren, a thread that   *)
(* acquires a checkable's mutex owns no mutex, not even the same one; a     *)
(* thread owns at most one mutex at a time, and only inside one of the six  *)
(* short functions, where nothing stands between it and the release (the   *)
(* only condition of Release is Holding); a thread whose lock() does not    *)
(* return waits for another thread that is in such a function.  So no set   *)
(* of threads is deadlocked, also when checkables depend on each other:     *)
(* while a thread runs, some thread can take a step.                        *)
C13_LockDiscipline ==
    /\ \A t \in Threads :
           /\ Cardinality(HeldBy(t)) <= 1
           /\ ~Running(t) => HeldBy(t) = {}
           /\ Running(t) => (Acquiring(t) \/ Holding(t))
           /\ Acquiring(t) => HeldBy(t) = {}
           /\ Holding(t) => HeldBy(t) = {thread[t].stack.top.self}
           /\ (Acquiring(t) /\ ~CanAcquire(t)) =>
                  \E u \in Threads \ {t} :
                      /\ m_DependencyMutex[thread[t].stack.top.self] = u
                      /\ Holding(u)
    /\ (\E t \in Threads : Running(t)) => \E t \in Threads : CanAcquire(t) \/ Holding(t)

(* The reader's IsReachable has come back to Front through Back and waits   *)
(* for Front's mutex, which the writer owns.                                *)
C13_Witness ==
    /\ Acquiring(Reader)
    /\ thread[Reader].op = "IsReachable"
    /\ thread[Reader].stack.top.self = Front
    /\ thread[Reader].stack.rest.rest.top.fn = "IsReachable"
    /\ thread[Reader].stack.rest.rest.top.level >= 2
    /\ m_DependencyMutex[Front] = Writer
    /\ Holding(Writer)
    /\ ~CanAcquire(Reader)

(* ---------------------------------------------------------------------- *)
(* A checkable Watched with two possible outgoing dependencies, NearEdge    *)
(* on Near and FarEdge on Far; Far depends on Near through UpperEdge.  The  *)
(* writer registers and unregisters the two dependencies of Watched while   *)
(* the reader takes snapshots and asks whether Watched is reachable.        *)
(* ---------------------------------------------------------------------- *)
Watched == 1
Near == 2
Far == 3
NearEdge == 1
FarEdge == 2
UpperEdge == 3

RaceType == "DependencyState"

InitRace ==
    /\ m_Parent = [d \in {NearEdge, FarEdge, UpperEdge} |-> IF d = FarEdge THEN Far ELSE Near]
    /\ m_Child = [d \in {NearEdge, FarEdge, UpperEdge} |-> IF d = UpperEdge THEN Far ELSE Watched]
    /\ \E registered \in SUBSET {NearEdge, FarEdge} :
          /\ m_Dependencies =
                 [c \in {Watched, Near, Far} |->
                     IF c = Watched THEN registered ELSE IF c = Far THEN {UpperEdge} ELSE {}]
          /\ m_ReverseDependencies =
                 [c \in {Watched, Near, Far} |->
                     IF c = Near THEN (registered \cap {NearEdge}) \cup {UpperEdge}
                     ELSE IF c = Far THEN registered \cap {FarEdge} ELSE {}]
    /\ m_RedundancyGroup = [d \in {NearEdge, FarEdge, UpperEdge} |-> ""]
    /\ available \in [{NearEdge, FarEdge, UpperEdge} -> {{}, DependencyTypes}]
    /\ m_Host = [c \in {Watched, Near, Far} |-> NotAService]
    /\ m_State = [c \in {Watched, Near, Far} |-> "HostUp"]
    /\ m_StateType = [c \in {Watched, Near, Far} |-> "StateTypeHard"]
    /\ call = Idle
    /\ NoThreads

NextRace ==
    \/ \E fn \in {"GetDependencies", "IsReachable"} :
          Begin(Reader, fn, Watched, nullptr, RaceType, nullptr, DeepOrder)
    \/ Begin(Reader, "GetReverseDependencies", Near, nullptr, RaceType, nullptr, DeepOrder)
    \/ \E fn \in {"AddDependency", "RemoveDependency"}, dep \in {NearEdge, FarEdge} :
          Begin(Writer, fn, Watched, dep, RaceType, NoSlot, DeepOrder)
    \/ \E fn \in {"AddReverseDependency", "RemoveReverseDependency"} :
          Begin(Writer, fn, Near, NearEdge, RaceType, NoSlot, DeepOrder)
    \/ \E t \in Threads : Acquire(t)
    \/ \E t \in Threads : Release(t)
    \/ \E t \in Threads : End(t)

SpecRace == InitRace /\ [][NextRace]_vars

(* The frames of a call stack. *)
RECURSIVE Frames(_, _)
Frames(stack, n) == IF n = 0 THEN {} ELSE {stack.top} \cup Frames(stack.rest, n - 1)

(* The loop of lines 63-66 in progress in the thread's outermost call. *)
ParentLoops(t) ==
    IF thread[t].op = "none" THEN {}
    ELSE {frame \in Frames(thread[t].stack, thread[t].n) :
             frame.fn = "IsReachable" /\ frame.pc = "loop" /\ frame.level = 0}

(* C16: the sequence GetDependencies() or GetReverseDependencies() returns  *)
(* holds exactly the elements the set had at one instant during the call,   *)
(* while the mutex was held, each once; what other threads add or remove    *)
(* later changes neither the returned sequence nor what the caller, still   *)
(* iterating and recursing, takes from it.                                  *)
C16_Snapshot ==
    \A t \in Threads :
        /\ (thread[t].op \in {"GetDependencies", "GetReverseDependencies"}
               /\ Returned(thread[t])) =>
               thread[t].rv = Value("vector", SortedSeq(thread[t].instant))
        /\ Holding(t) => thread[t].instant = SetOf(thread[t].stack.top)
        /\ \A frame \in ParentLoops(t) :
               frame.todo \subseteq ParentsLoop(frame.self, SortedSeq(frame.acc), 1, {})

(* The writer has emptied the set since: the reader's returned sequence     *)
(* still has both dependencies.                                             *)
C16_Witness ==
    /\ thread[Reader].op = "GetDependencies"
    /\ Returned(thread[Reader])
    /\ thread[Reader].rv.value = <<NearEdge, FarEdge>>
    /\ m_Dependencies[Watched] = {}

(* The reader is inside the call on Near and will call Far next, from its   *)
(* snapshot, although FarEdge is no longer registered.                      *)
IteratesOverSnapshot ==
    /\ thread[Reader].op = "IsReachable"
    /\ Running(Reader)
    /\ thread[Reader].n > 3
    /\ \E frame \in ParentLoops(Reader) :
          /\ frame.self = Watched
          /\ Far \in frame.todo
          /\ Far \notin GetParents(Watched)

(* ---------------------------------------------------------------------- *)
(* What IsReachable(Watched) gives when its outgoing set is S throughout:   *)
(* the parents derived from S are reachable (lines 63-66), the host gate    *)
(* does not fire (lines 68-79) and the verdict over S is true (lines        *)
(* 81-122).  The sets of the parents are not written in SpecRace.           *)
(* ---------------------------------------------------------------------- *)
ParentsOK(S) ==
    \A p \in ParentsLoop(Watched, SortedSeq(S), 1, {}) :
        IsReachable(p, RaceType, nullptr, DeepOrder).ret

OwnOK(S) == Verdict(SortedSeq(S), RaceType, DeepOrder).ret

ResultOn(S) == ParentsOK(S) /\ ~HostGate(Watched, RaceType) /\ OwnOK(S)

ReaderReturned == thread[Reader].op = "IsReachable" /\ Returned(thread[Reader])

(* C17 as stated: when other threads add or remove outgoing edges of X      *)
(* while IsReachable(X, dt) runs, availability and the parents'             *)
(* reachability being fixed, the boolean returned is the result on at least *)
(* one of the contents X's outgoing set had between the start of the call   *)
(* and its return.                                                          *)
C17_AsStated ==
    ReaderReturned => \E S \in held : thread[Reader].rv.value = ResultOn(S)

(* C17, what the two snapshots of lines 63 and 81 give: the parents come    *)
(* from one of the contents the set had and the verdict over the own edges  *)
(* from one of them, not necessarily the same; a false result is the result *)
(* on one of the contents, a true result need not be.                       *)
C17_TwoSnapshots ==
    ReaderReturned =>
        /\ \E S1, S2 \in held :
               thread[Reader].rv.value =
                   (ParentsOK(S1) /\ ~HostGate(Watched, RaceType) /\ OwnOK(S2))
        /\ ~thread[Reader].rv.value => \E S \in held : ~ResultOn(S)

(* IsReachable returned true although Watched was unreachable on each of    *)
(* the contents its set had during the call: NearEdge, unavailable, was     *)
(* replaced by FarEdge, available, whose parent is unreachable.             *)
C17_Witness ==
    /\ ReaderReturned
    /\ thread[Reader].rv.value
    /\ held = {{NearEdge}, {NearEdge, FarEdge}, {FarEdge}}
    /\ \A S \in held : ~ResultOn(S)

====
